---- MODULE Spec2Model ----
(***************************************************************************)
(* Model of src/main.py, the Streamlit front end of the Scientific         *)
(* Research Agent.  Streamlit re-executes the whole script on every user   *)
(* interaction, so one action of the model is one interaction: the script  *)
(* run it triggers, from the sidebar (lines 102-128) to the chat interface *)
(* (lines 131-176), including the rerun that st.rerun() asks for.          *)
(*                                                                         *)
(* The collaborators (the filesystem, llmware's Library and Query, the     *)
(* Groq client) are outside the repository.  Whether one of their calls    *)
(* raises, and what a query returns, is an input of the action, drawn from *)
(* a small set.                                                            *)
(***************************************************************************)
EXTENDS Integers, Sequences, FiniteSets, TLC

VARIABLES
    folderExists,   \* os.path.exists(RESEARCH_PAPERS_PATH)
    files,          \* the corpus folder: file name -> bytes (0: no such file)
    uploaded,       \* the st.file_uploader widget: file name -> bytes (0: not in it)
    lib,            \* ~/llmware/library/<LIBRARY_NAME>, the collection on disk
    cache,          \* st.cache_resource of setup_library: <<>> or <<handle>>
    builds,         \* calls of process_and_embed_files so far
    streak,         \* builds in a row that ran to completion (capped at 2)
    run             \* what the last script run did and displayed

vars == <<folderExists, files, uploaded, lib, cache, builds, streak, run>>

---------------------------------------------------------------------------
(* Bounds of the model *)

MaxContent == 2     \* distinct byte contents a file may have
MaxBuilds == 2      \* builds in one behaviour
MaxFound == 1       \* longest result list of a query under Spec
MaxResults == 8     \* longest result list of a query under SpecPrompt

(* Program constants *)

TopK == 7           \* query_results[:7]
result_count == 20   \* semantic_search(..., result_count=20)

Names == {"a.txt"}
Contents == 1..MaxContent
Truncated == MaxContent + 1    \* a file left behind by a write that raised
NoFiles == [n \in Names |-> 0]
Batches == [Names -> {0} \cup Contents]
BatchNames(b) == {n \in Names : b[n] # 0}

Queries == {"", "why"}
Keys == {"NONE", "", "gsk"}    \* os.environ.get("GROQ"): None, empty, set
Responses == {"", "text"}      \* choices[0].message.content
ErrNoKey == "Error: GROQ environment variable not set. Please add it to your .env file."
Raised == "RAISED"             \* stands for an exception leaving a call

AbsentLib == [stage |-> "absent", content |-> NoFiles, gen |-> 0, loadable |-> FALSE]

(* One token of a prompt. *)
Tok(k, r, s) == [kind |-> k, rank |-> r, str |-> s]
Sep == Tok("sep", 0, "\n---\n")
Pre == Tok("template", 0, "head")
Mid == Tok("template", 0, "query")
Post == Tok("template", 0, "reply")

(* The ranked result list of a query that returns n chunks. *)
Results(n) == [i \in 1..n |-> [text |-> Tok("text", i, "")]]

Min(a, b) == IF a < b THEN a ELSE b

NewRun(k) ==
    [kind |-> k, outcome |-> "completed", ctrl |-> "Unreached",
     loadExecuted |-> FALSE, queryOffered |-> FALSE, handler |-> FALSE,
     msgs |-> {}, events |-> <<>>, q |-> "",
     searchStage |-> "none", handle |-> <<>>, view |-> NoFiles, nres |-> 0,
     prompt |-> <<>>, answer |-> "NONE",
     noFiles |-> FALSE, buildDone |-> FALSE]

State ==
    [folderExists |-> folderExists, files |-> files, uploaded |-> uploaded,
     lib |-> lib, cache |-> cache, builds |-> builds, streak |-> streak,
     run |-> run]

Commit(s) ==
    /\ folderExists' = s.folderExists
    /\ files' = s.files
    /\ uploaded' = s.uploaded
    /\ lib' = s.lib
    /\ cache' = s.cache
    /\ builds' = s.builds
    /\ streak' = s.streak
    /\ run' = s.run

Say(s, m) == [s EXCEPT !.run.msgs = @ \cup {m}]
Uncaught(s) == [s EXCEPT !.run.outcome = "uncaught"]
Crashed(s) == s.run.outcome = "uncaught"

---------------------------------------------------------------------------
(* The sidebar *)

(* Lines 112-121.  saved: the files of the uploader written before a write *)
(* raised (all of them: no write raised); mkdirOk: os.makedirs returned;    *)
(* trunc: the write that raised had already truncated its file.            *)
SaveUploads(s, saved, mkdirOk, trunc) ==
    LET batch == BatchNames(s.uploaded) IN
    IF batch = {} THEN s
    ELSE IF ~s.folderExists /\ ~mkdirOk THEN Uncaught(s)
    ELSE LET hit == IF saved = batch \/ ~trunc THEN {}
                    ELSE {CHOOSE n \in batch \ saved : TRUE}
             written == [n \in Names |->
                            IF n \in saved THEN s.uploaded[n]
                            ELSE IF n \in hit THEN Truncated
                            ELSE s.files[n]]
             s1 == [s EXCEPT !.folderExists = TRUE, !.files = written]
         IN IF saved = batch THEN Say(s1, "uploaded") ELSE Uncaught(s1)

(* What a build that stops at `failAt` leaves on disk; gen numbers it. *)
BuiltLib(failAt, folder, gen, partialLoads) ==
    CASE failAt = "create"    -> AbsentLib
      [] failAt = "add_files" -> [stage |-> "created", content |-> NoFiles,
                                  gen |-> gen, loadable |-> partialLoads]
      [] failAt = "embed"     -> [stage |-> "parsed", content |-> folder,
                                  gen |-> gen, loadable |-> partialLoads]
      [] OTHER                -> [stage |-> "embedded", content |-> folder,
                                  gen |-> gen, loadable |-> TRUE]

(* As process_and_embed_files, but clearing st.cache_resource before the   *)
(* rerun.                                                                  *)
process_and_embed_files_clearsCache(s, failAt, partialLoads) ==
    LET gen == s.builds + 1
        s1 == [s EXCEPT !.builds = gen,
                        !.lib = BuiltLib(failAt, s.files, gen, partialLoads)]
    IN IF failAt = "none"
       THEN [Say(s1, "complete") EXCEPT !.streak = Min(s.streak + 1, 2),
                                        !.run.buildDone = TRUE,
                                        !.cache = <<>>]
       ELSE [Uncaught(s1) EXCEPT !.streak = 0]

(* As process_and_embed_files, but add_files moving the documents into the *)
(* library instead of reading them.                                        *)
process_and_embed_files_movesFiles(s, failAt, partialLoads) ==
    LET gen == s.builds + 1
        s1 == [s EXCEPT !.builds = gen,
                        !.lib = BuiltLib(failAt, s.files, gen, partialLoads),
                        !.files = IF failAt = "none" THEN NoFiles ELSE @]
    IN IF failAt = "none"
       THEN [Say(s1, "complete") EXCEPT !.streak = Min(s.streak + 1, 2),
                                        !.run.buildDone = TRUE]
       ELSE [Uncaught(s1) EXCEPT !.streak = 0]

(* Lines 34-57.  failAt: the first call that raises, "none" when none does. *)
(* The old directory is removed first, so whatever stops the build, the     *)
(* previous collection is gone.  Only a complete build reaches st.rerun().  *)
process_and_embed_files(s, failAt, partialLoads) ==
    LET gen == s.builds + 1
        s1 == [s EXCEPT !.builds = gen,
                        !.lib = BuiltLib(failAt, s.files, gen, partialLoads)]
    IN IF failAt = "none"
       THEN [Say(s1, "complete") EXCEPT !.streak = Min(s.streak + 1, 2),
                                        !.run.buildDone = TRUE]
       ELSE [Uncaught(s1) EXCEPT !.streak = 0]

(* Lines 123-128: the "Process & Embed Documents" button. *)
ProcessButton(s, failAt, partialLoads) ==
    IF ~s.folderExists
    THEN [Uncaught(s) EXCEPT !.run.noFiles = TRUE]   \* os.listdir raises
    ELSE IF BatchNames(s.files) = {}
    THEN [Say(s, "noFilesWarning") EXCEPT !.run.noFiles = TRUE]
    ELSE process_and_embed_files(s, failAt, partialLoads)

---------------------------------------------------------------------------
(* The chat interface *)

(* As setup_library, but with a cache that also keeps a failed load. *)
setup_library_cachesFailure(s) ==
    LET failed == <<[gen |-> 0, content |-> NoFiles]>> IN
    IF s.cache = failed
    THEN [st |-> s, handle |-> <<>>]
    ELSE IF s.cache # <<>>
    THEN [st |-> s, handle |-> s.cache]
    ELSE LET s1 == [s EXCEPT !.run.loadExecuted = TRUE] IN
         IF s.lib.loadable
         THEN LET h == <<[gen |-> s.lib.gen, content |-> s.lib.content]>>
              IN [st |-> [s1 EXCEPT !.cache = h], handle |-> h]
         ELSE [st |-> [s1 EXCEPT !.cache = failed], handle |-> <<>>]

(* Lines 18-31 under st.cache_resource: a value returned is kept for the   *)
(* life of the process, an exception is not kept.  Gives the state and the *)
(* handle, <<>> when load_library raised.                                  *)
setup_library(s) ==
    IF s.cache # <<>>
    THEN [st |-> s, handle |-> s.cache]
    ELSE LET s1 == [s EXCEPT !.run.loadExecuted = TRUE] IN
         IF s.lib.loadable
         THEN LET h == <<[gen |-> s.lib.gen, content |-> s.lib.content]>>
              IN [st |-> [s1 EXCEPT !.cache = h], handle |-> h]
         ELSE [st |-> s1, handle |-> <<>>]

(* Lines 60-66.  The query goes to whatever the collection of that name is *)
(* now; a handle loaded before a rebuild may still answer from what it     *)
(* loaded (stale).  searchOk: semantic_query returned; found: the number   *)
(* of chunks it found.                                                     *)
semantic_search(s, handle, searchOk, found, stale) ==
    LET h == handle[1]
        view == IF stale /\ h.gen # s.lib.gen THEN h.content ELSE s.lib.content
        n == IF ~searchOk \/ BatchNames(view) = {} THEN 0
             ELSE Min(found, result_count)
        s0 == [s EXCEPT !.run.events = Append(@, "retrieve"),
                        !.run.searchStage = s.lib.stage,
                        !.run.handle = handle]
        s1 == IF searchOk THEN [s0 EXCEPT !.run.view = view, !.run.nres = n]
              ELSE s0
    IN [st |-> s1, raised |-> ~searchOk, results |-> Results(n)]

RECURSIVE Join(_, _)
Join(texts, sep) ==
    IF texts = <<>> THEN <<>>
    ELSE IF Len(texts) = 1 THEN <<texts[1]>>
    ELSE <<texts[1], sep>> \o Join(Tail(texts), sep)

(* As context, but with the slice one chunk too long. *)
context_offByOne(query_results) ==
    LET top == SubSeq(query_results, 1, Min(Len(query_results), TopK + 1))
    IN Join([i \in 1..Len(top) |-> top[i].text], Sep)

(* Line 164. *)
context(query_results) ==
    LET top == SubSeq(query_results, 1, Min(Len(query_results), TopK))
    IN Join([i \in 1..Len(top) |-> top[i].text], Sep)

(* Lines 151-165: prompt_template.format(context=..., query=...). *)
final_prompt(query_results, user_query) ==
    <<Pre>> \o context(query_results) \o <<Mid, Tok("query", 0, user_query), Post>>

(* As ask_groq, but sending the request again when it failed. *)
ask_groq_retries(user_prompt, api_key, ctorOk, apiOk, resp) ==
    IF api_key \in {"NONE", ""}
    THEN [result |-> ErrNoKey, events |-> <<"ask">>, reported |-> FALSE]
    ELSE IF ~ctorOk
    THEN [result |-> Raised, events |-> <<"ask">>, reported |-> FALSE]
    ELSE IF ~apiOk
    THEN [result |-> "", events |-> <<"ask", "request", "request">>,
          reported |-> TRUE]
    ELSE [result |-> resp, events |-> <<"ask", "request">>, reported |-> FALSE]

(* Lines 69-88.  Gives what the caller gets (Raised: an exception) and the *)
(* events of the call.                                                     *)
ask_groq(user_prompt, api_key, ctorOk, apiOk, resp) ==
    IF api_key \in {"NONE", ""}
    THEN [result |-> ErrNoKey, events |-> <<"ask">>, reported |-> FALSE]
    ELSE IF ~ctorOk
    THEN [result |-> Raised, events |-> <<"ask">>, reported |-> FALSE]
    ELSE IF ~apiOk
    THEN [result |-> "", events |-> <<"ask", "request">>, reported |-> TRUE]
    ELSE [result |-> resp, events |-> <<"ask", "request">>, reported |-> FALSE]

(* Lines 173-176. *)
Handler(s) ==
    [Say(s, "guidance") EXCEPT !.run.handler = TRUE]

(* Lines 140-171: the "Get Answer" button, inside the try. *)
GetAnswer(s, handle, in) ==
    IF in.q = "" THEN Say(s, "emptyQueryWarning")
    ELSE LET r == semantic_search(s, handle, in.searchOk, in.found, in.stale) IN
         IF r.raised THEN Handler(r.st)
         ELSE IF r.results = <<>> THEN Say(r.st, "noRelevantInformation")
         ELSE LET p == final_prompt(r.results, in.q)
                  a == ask_groq(p, in.key, in.ctorOk, in.apiOk, in.resp)
                  s1 == [r.st EXCEPT !.run.prompt = p,
                                     !.run.events = @ \o a.events,
                                     !.run.answer = a.result]
                  s2 == IF a.reported THEN Say(s1, "groqError") ELSE s1
              IN IF a.result = Raised THEN Handler(s2) ELSE Say(s2, "answer")

(* Lines 131-176. *)
MainSection(s, click, in) ==
    LET l == setup_library(s) IN
    IF l.handle = <<>>
    THEN [Handler(l.st) EXCEPT !.run.ctrl = "NoCollection"]
    ELSE LET s1 == [l.st EXCEPT !.run.ctrl = "Ready",
                                !.run.queryOffered = TRUE,
                                !.run.q = in.q]
         IN IF click THEN GetAnswer(s1, l.handle, in) ELSE s1

NoInput ==
    [q |-> "", searchOk |-> TRUE, found |-> 0, stale |-> FALSE, key |-> "NONE",
     ctorOk |-> TRUE, apiOk |-> TRUE, resp |-> ""]

(* The inputs of ask_groq that lead to different outcomes. *)
GroqInputs ==
    {[NoInput EXCEPT !.key = k] : k \in {"NONE", ""}}
    \cup {[NoInput EXCEPT !.key = "gsk", !.ctorOk = FALSE]}
    \cup {[NoInput EXCEPT !.key = "gsk", !.apiOk = FALSE]}
    \cup {[NoInput EXCEPT !.key = "gsk", !.resp = r] : r \in Responses}

(* The inputs of a click on "Get Answer" that lead to different outcomes,  *)
(* with result lists of up to `most` chunks.                               *)
AnswerInputs(most) ==
    {NoInput}
    \cup {[NoInput EXCEPT !.q = q, !.searchOk = FALSE] : q \in Queries \ {""}}
    \cup {[NoInput EXCEPT !.q = q, !.stale = st] :
              q \in Queries \ {""}, st \in BOOLEAN}
    \cup {[g EXCEPT !.q = q, !.stale = st, !.found = n] :
              q \in Queries \ {""}, st \in BOOLEAN, n \in 1..most,
              g \in GroqInputs}

(* The outcomes of the writes of lines 112-121 that differ in state s. *)
SaveInputs(s) ==
    LET batch == BatchNames(s.uploaded) IN
    {[saved |-> batch, mkdirOk |-> TRUE, trunc |-> FALSE]}
    \cup (IF batch # {} /\ ~s.folderExists
          THEN {[saved |-> batch, mkdirOk |-> FALSE, trunc |-> FALSE]}
          ELSE {})
    \cup {[saved |-> sv, mkdirOk |-> TRUE, trunc |-> tr] :
              sv \in (SUBSET batch) \ {batch}, tr \in BOOLEAN}

(* One script run with no button pressed. *)
PlainRun(s, sv) ==
    LET s1 == SaveUploads(s, sv.saved, sv.mkdirOk, sv.trunc)
    IN IF Crashed(s1) THEN s1 ELSE MainSection(s1, FALSE, NoInput)

(* The script run of a click on "Process & Embed Documents", up to the end *)
(* of the sidebar.                                                         *)
ProcessRun(s, sv, failAt, partialLoads) ==
    LET s1 == SaveUploads(s, sv.saved, sv.mkdirOk, sv.trunc)
    IN IF Crashed(s1) THEN s1 ELSE ProcessButton(s1, failAt, partialLoads)

(* The run that st.rerun() starts: the buttons are released, the uploader  *)
(* still holds its files.                                                  *)
Rerun(s, sv) ==
    PlainRun([s EXCEPT !.run = [NewRun(s.run.kind) EXCEPT !.buildDone = TRUE]], sv)

(* The script run of a click on "Get Answer". *)
AnswerRun(s, sv, in) ==
    LET s1 == SaveUploads(s, sv.saved, sv.mkdirOk, sv.trunc)
    IN IF Crashed(s1) THEN s1 ELSE MainSection(s1, TRUE, in)

---------------------------------------------------------------------------
(* The interactions *)

Is(s) ==
    /\ folderExists = s.folderExists
    /\ files = s.files
    /\ uploaded = s.uploaded
    /\ lib = s.lib
    /\ cache = s.cache
    /\ builds = s.builds
    /\ streak = s.streak
    /\ run = s.run

NoUpload == [saved |-> {}, mkdirOk |-> TRUE, trunc |-> FALSE]

(* A new process, whose disk holds `folder` (if the corpus folder exists)  *)
(* and the collection `library`.                                           *)
Started(exists, folder, library, n) ==
    [folderExists |-> exists, files |-> folder, uploaded |-> NoFiles,
     lib |-> library, cache |-> <<>>, builds |-> n, streak |-> n,
     run |-> NewRun("start")]

(* The page is opened in a new process with no collection yet: the first   *)
(* script run has been made.                                               *)
Init ==
    \E exists \in BOOLEAN :
        Is(PlainRun(Started(exists, NoFiles, AbsentLib, 0), NoUpload))

Fresh(k) == [State EXCEPT !.run = NewRun(k)]

(* The user changes the content of the file uploader. *)
Upload ==
    \E b \in Batches :
        /\ b # uploaded
        /\ LET s == [Fresh("upload") EXCEPT !.uploaded = b]
           IN \E sv \in SaveInputs(s) : Commit(PlainRun(s, sv))

(* The user edits the question: a run with no button pressed. *)
EditQuery ==
    \E sv \in SaveInputs(State) : Commit(PlainRun(Fresh("edit"), sv))

ClickProcess ==
    /\ builds < MaxBuilds
    /\ \E sv \in SaveInputs(State) : \E partialLoads \in BOOLEAN :
       \E failAt \in {"none", "create", "add_files", "embed"} :
          LET s == ProcessRun(Fresh("process"), sv, failAt, partialLoads)
          IN IF Crashed(s) THEN Commit(s)
             ELSE IF s.run.buildDone
             THEN \E sv2 \in SaveInputs(s) : Commit(Rerun(s, sv2))
             ELSE Commit(MainSection(s, FALSE, NoInput))

ClickAnswer ==
    \E sv \in SaveInputs(State) : \E in \in AnswerInputs(MaxFound) :
        Commit(AnswerRun(Fresh("answer"), sv, in))

Next == Upload \/ EditQuery \/ ClickProcess \/ ClickAnswer

Spec == Init /\ [][Next]_vars

(* The session once the collection is built: uploads and questions, with   *)
(* result lists as long as MaxResults.                                     *)
InitPrompt ==
    \E folder \in [Names -> Contents] :
        Is(PlainRun(Started(TRUE, folder, BuiltLib("none", folder, 1, TRUE), 1),
                    NoUpload))

AskAnything ==
    \E sv \in SaveInputs(State) : \E in \in AnswerInputs(MaxResults) :
        Commit(AnswerRun(Fresh("answer"), sv, in))

NextPrompt == Upload \/ EditQuery \/ AskAnything

SpecPrompt == InitPrompt /\ [][NextPrompt]_vars

---------------------------------------------------------------------------
(* Properties *)

Count(ev, x) == Cardinality({i \in DOMAIN ev : ev[i] = x})
Reached(r) == r.ctrl # "Unreached"

(* C1: a Retrieval Service call (semantic_search) is only ever issued      *)
(* against a collection that exists and whose last build ran to            *)
(* completion.                                                             *)
C1_SearchOnlyOnBuiltCollection ==
    run.searchStage \in {"none", "embedded"}

(* C2: an exception raised by any collaborator in any interaction is       *)
(* caught by the top-level handler and reported with the guidance to build *)
(* the collection, and the script run completes.                           *)
C2_EveryExceptionHandled ==
    /\ run.outcome = "completed"
    /\ Reached(run)

C4_QueriesReflectLastBuild ==
    (streak = 2 /\ run.nres > 0) => run.view = lib.content

(* C5: a click on "Process & Embed Documents" when the corpus folder holds *)
(* no files (empty, or never created) yields the warning and the run goes  *)
(* on with the state unchanged.                                            *)
C5_EmptyCorpusWarns ==
    run.noFiles => ("noFilesWarning" \in run.msgs /\ run.outcome = "completed")

(* C6: ask_groq never raises to its caller and always returns a string. *)
C6_AskGroqNeverRaises ==
    run.answer \in {"NONE", ErrNoKey, ""} \cup Responses

C8_PromptIsTopSevenInOrder ==
    LET p == run.prompt
        n == run.nres
        k == Min(n, 7)
    IN /\ (n >= 1) <=> (p # <<>>)
       /\ p # <<>> =>
            /\ Len(p) = 2 * k + 3
            /\ p[1] = Pre
            /\ \A i \in 1..k : p[2 * i] = Results(n)[i].text
            /\ \A i \in 1..(k - 1) : p[2 * i + 1] = Sep
            /\ p[2 * k + 1] = Mid
            /\ p[2 * k + 2] = Tok("query", 0, run.q)
            /\ p[2 * k + 3] = Post
            /\ \A j \in DOMAIN p : p[j].kind = "text" => p[j].rank <= 7

(* C8's case: more than seven results were returned and a prompt was made. *)
C8_Witness ==
    run.nres > TopK /\ run.prompt # <<>> /\ run.q # ""

C10_DocumentsNeverMutated ==
    [][\A n \in Names :
          (files[n] \in Contents /\ run'.outcome = "completed") =>
             files'[n] = files[n]]_vars

(* C10, amended: a file of the corpus folder is never removed, and it is   *)
(* created or changed only by the upload handler writing the file of that  *)
(* name that the uploader holds (its bytes, or a truncated file when the   *)
(* write raises); process_and_embed_files and the query handler leave the  *)
(* folder as it is.                                                        *)
C10_OnlyUploadsWrite ==
    [][\A n \in Names :
          /\ files[n] # 0 => files'[n] # 0
          /\ files'[n] # files[n] =>
                (uploaded'[n] # 0 /\ files'[n] \in {uploaded'[n], Truncated})
          /\ (run'.outcome = "completed" /\ uploaded'[n] # 0) =>
                files'[n] = uploaded'[n]
      ]_vars

(* C10's case: a document that a completed build indexed was overwritten   *)
(* by a later upload of the same name, and a query was then made.          *)
C10_Witness ==
    \E n \in Names :
        /\ lib.stage = "embedded"
        /\ lib.content[n] \in Contents
        /\ files[n] \in Contents
        /\ files[n] # lib.content[n]
        /\ run.events # <<>>

====
